---- MODULE Spec2Model ----
(***************************************************************************)
(* Model of src/bytes.rs: the compact Bytes value (Borrowed / Owned raw    *)
(* parts with a u32 length), its clone, set, drop, equality and ordering,  *)
(* over an explicit heap of boxed slices and a set of externally owned     *)
(* buffers.                                                                *)
(*                                                                         *)
(* A byte sequence of length n is represented by its length and its first  *)
(* min(n, PrefixLen) bytes; every byte past PrefixLen is the fill byte 0.  *)
(* This keeps sequences of 2^32 bytes representable with their true        *)
(* length.  A length (usize, u32) is held as two 16-bit limbs, hi and lo,  *)
(* standing for hi * 2^16 + lo, so that 2^32 - 1 and 2^32 are exact.       *)
(***************************************************************************)
EXTENDS Integers, Sequences, FiniteSets, TLC

PrefixLen == 2
MaxByte == 1
NumExt == 2

\* one limb of a length is 16 bits
Limb == 256 * 256

\* the length k, for a small k
USize(k) == [hi |-> 0, lo |-> k]

USucc(n) == IF n.lo = Limb - 1 THEN [hi |-> n.hi + 1, lo |-> 0] ELSE [hi |-> n.hi, lo |-> n.lo + 1]

ULt(a, b) == a.hi < b.hi \/ (a.hi = b.hi /\ a.lo < b.lo)

ULe(a, b) == a = b \/ ULt(a, b)

\* const MAX: usize = u32::MAX as usize, 2^32 - 1
MAX == [hi |-> Limb - 1, lo |-> Limb - 1]

\* the address of a boxed slice of length 0, which holds no allocation
\* (NonNull::dangling(), below every other address)
Dangling == 0

\* the Bytes values of the program: two bindings, a and b (every operation
\* takes one value or a pair)
Slots == {"a", "b"}
Byte == 0..MaxByte
ExtAddr == 1..NumExt
\* one address more than the boxes that can be live at once: one per value
\* and the box handed to set
HeapAddr == (NumExt + 1)..(NumExt + Cardinality(Slots) + 1)

Min(a, b) == IF a <= b THEN a ELSE b

\* `x as u32` for a usize x: x modulo 2^32
AsU32(n) == [hi |-> n.hi % Limb, lo |-> n.lo]

\* the number of bytes of a sequence of length n that are held explicitly
PreLen(n) == IF n.hi = 0 THEN Min(n.lo, PrefixLen) ELSE PrefixLen

EmptyBuf == [len |-> USize(0), pre |-> <<>>]

\* the first n bytes of b (n <= b.len)
Take(b, n) == [len |-> n, pre |-> SubSeq(b.pre, 1, PreLen(n))]

\* the sequence of n bytes whose explicit bytes are all b
Fill(n, b) == [len |-> n, pre |-> [k \in 1..PreLen(n) |-> b]]

NoVal == [tag |-> "None", ptr |-> 0, len |-> USize(0)]

FreeCell == [live |-> FALSE, buf |-> EmptyBuf]

\* lengths of the views handed to From<&[u8]>
SliceLens == {USize(k) : k \in 0..PrefixLen} \cup {MAX, USucc(MAX), USucc(USucc(MAX))}

\* every external buffer is ExtLen bytes long
ExtLen == USucc(USucc(MAX))

\* the external memory: the buffer at e is ExtLen bytes long and starts with
\* the bytes (e + k) % (MaxByte + 1), k = 1..PrefixLen
ExtMem ==
    [e \in ExtAddr |-> [len |-> ExtLen,
                        pre |-> [k \in 1..PrefixLen |-> (e + k) % (MaxByte + 1)]]]

\* the boxed slices handed to set: the one-byte-value sequences of every
\* small length, and the zero-filled ones of 2^32 - 1 and 2^32 bytes
BoxInputs ==
    {Fill(USize(k), b) : k \in 0..PrefixLen, b \in Byte}
        \cup {Fill(n, 0) : n \in {MAX, USucc(MAX)}}

VARIABLES ext, heap, vals, last

vars == <<ext, heap, vals, last>>

----
\* memory

FreeAddrs(h) == {p \in HeapAddr : ~h[p].live}

\* the addresses a new Box<[u8]> of content c can get: any free address, or
\* the dangling address when c is empty
BoxAddrs(h, c) == IF c.len = USize(0) THEN {Dangling} ELSE FreeAddrs(h)

\* Box<[u8]> of content c at address p: an allocation unless c is empty
alloc(h, p, c) == IF c.len = USize(0) THEN h ELSE [h EXCEPT ![p] = [live |-> TRUE, buf |-> c]]

\* drop of the Box<[u8]> rebuilt from (p, len): releases the allocation at p
\* unless len is 0 (a release of an address that holds no live allocation
\* leaves the heap as it is)
dealloc(h, p, len) ==
    IF len # USize(0) /\ p \in HeapAddr /\ h[p].live THEN [h EXCEPT ![p] = FreeCell] ELSE h

\* the release is the release of a live heap allocation of that length
ValidRelease(h, p, len) == p \in HeapAddr /\ h[p].live /\ h[p].buf.len = len

\* the releases that the drop of the Box<[u8]> rebuilt from (p, len) performs
RelEvents(h, p, len) ==
    IF len = USize(0) THEN <<>> ELSE <<[addr |-> p, ok |-> ValidRelease(h, p, len)]>>

\* len bytes at address p are readable memory
Readable(h, p, len) ==
    \/ len = USize(0)
    \/ p \in ExtAddr /\ ULe(len, ext[p].len)
    \/ p \in HeapAddr /\ h[p].live /\ ULe(len, h[p].buf.len)

MemAt(h, p) == IF p \in ExtAddr THEN ext[p] ELSE h[p].buf

\* what a read of len bytes of released or out-of-bounds memory can yield:
\* len bytes of any one value
Garbage(len) == {Fill(len, b) : b \in Byte}

\* what a read of a slice can yield: the bytes when the memory is readable,
\* garbage when it is released or out of bounds
Deref(h, s) ==
    IF s.len = USize(0) THEN {EmptyBuf}
    ELSE IF Readable(h, s.ptr, s.len) THEN {Take(MemAt(h, s.ptr), s.len)}
    ELSE Garbage(s.len)

----
\* raw parts

\* std::slice::from_raw_parts(ptr, l as usize)
compact_bytes_to_slice(ptr, l) == [ptr |-> ptr, len |-> l]

\* Vec::from_raw_parts(ptr, len, len).into_boxed_slice()
compact_bytes_to_boxed_slice(ptr, len) == [ptr |-> ptr, len |-> len]

\* (slice.as_mut_ptr(), slice.len() as u32)
boxed_slice_to_compact_parts(box) == [ptr |-> box.ptr, len |-> AsU32(box.len)]

\* Bytes { data: BytesInner::Borrowed(s.as_ptr(), s.len() as u32) }
from(s) == [tag |-> "Borrowed", ptr |-> s.ptr, len |-> AsU32(s.len)]

as_bytes(self) == compact_bytes_to_slice(self.ptr, self.len)

as_ptr(self) == self.ptr

\* an as_bytes_borrowed that returns the view for either variant
as_bytes_borrowed_any(self) ==
    [some |-> TRUE, view |-> compact_bytes_to_slice(self.ptr, self.len)]

\* Bytes::as_bytes_borrowed: Some(view) for Borrowed, None otherwise
as_bytes_borrowed(self) ==
    IF self.tag = "Borrowed"
    THEN [some |-> TRUE, view |-> compact_bytes_to_slice(self.ptr, self.len)]
    ELSE [some |-> FALSE, view |-> compact_bytes_to_slice(Dangling, USize(0))]

\* impl Drop for BytesInner: the heap after the drop
drop(h, d) == IF d.tag = "Owned" THEN dealloc(h, d.ptr, d.len) ELSE h

\* the releases the drop performs
drop_rels(h, d) == IF d.tag = "Owned" THEN RelEvents(h, d.ptr, d.len) ELSE <<>>

\* the storage a value records is readable
Valid(h, v) == Readable(h, v.ptr, v.len)

\* an Owned value records a live allocation of exactly its length, or is empty
OwnsLive(h, v) ==
    /\ v.tag = "Owned"
    /\ IF v.len = USize(0) THEN v.ptr = Dangling ELSE ValidRelease(h, v.ptr, v.len)

PreOk(h, v) == IF v.tag = "Owned" THEN OwnsLive(h, v) ELSE Valid(h, v)

Content(h, v) == CHOOSE c \in Deref(h, as_bytes(v)) : TRUE

----
\* comparison

IntCmp(x, y) == IF x < y THEN "Less" ELSE IF x > y THEN "Greater" ELSE "Equal"

UCmp(x, y) == IF ULt(x, y) THEN "Less" ELSE IF ULt(y, x) THEN "Greater" ELSE "Equal"

\* `this == that` on [u8]: same length and the same byte at every index
SliceEq(x, y) ==
    /\ x.len = y.len
    /\ \A k \in 1..Min(Len(x.pre), Len(y.pre)) : x.pre[k] = y.pre[k]

\* the structural equality #[derive(PartialEq)] would give Bytes
eq_derived(self, other) ==
    {self.tag = other.tag /\ self.ptr = other.ptr /\ self.len = other.len}

\* impl PartialEq for Bytes: the results eq can return
eq(self, other) ==
    {SliceEq(this, that) : this \in Deref(heap, as_bytes(self)),
                           that \in Deref(heap, as_bytes(other))}

\* <[u8] as Hash>::hash: what the hasher is fed, the length and then the bytes
SliceHash(x) == <<x.len>> \o x.pre

\* the hash #[derive(Hash)] would give Bytes: discriminant, pointer, length
hash_derived(self) == {<<self.tag, self.ptr, self.len>>}

\* impl Hash for Bytes: what hash can feed the hasher
hash(self) == {SliceHash(this) : this \in Deref(heap, as_bytes(self))}

\* declaration order of the variants of BytesInner
Discriminant(d) == IF d.tag = "Borrowed" THEN 0 ELSE 1

\* #[derive(PartialOrd, Ord)] on BytesInner: discriminant, then the fields
\* in order (pointer address, then length)
cmp_inner(a, b) ==
    IF Discriminant(a) # Discriminant(b) THEN IntCmp(Discriminant(a), Discriminant(b))
    ELSE IF a.ptr # b.ptr THEN IntCmp(a.ptr, b.ptr)
    ELSE UCmp(a.len, b.len)

\* #[derive(PartialOrd, Ord)] on Bytes: the field data (PhantomData is Equal)
cmp(self, other) == cmp_inner(self, other)

----
\* operations

Rec(op, slot, other, pre, preOk, arg, res, box, allocs, rels) ==
    [op |-> op, slot |-> slot, other |-> other, pre |-> pre, preOk |-> preOk,
     arg |-> arg, res |-> res, box |-> box, allocs |-> allocs, rels |-> rels]

Init ==
    /\ ext = ExtMem
    /\ heap = [p \in HeapAddr |-> FreeCell]
    /\ vals = [i \in Slots |-> NoVal]
    /\ last = Rec("init", "none", "none", NoVal, TRUE, EmptyBuf, "Ok", 0, {}, <<>>)

\* Bytes::from(s) for a view s of n bytes of the external buffer at e
FromBorrowed(i, e, n) ==
    /\ vals[i] = NoVal
    /\ ULe(n, ext[e].len)
    /\ LET s == [ptr |-> e, len |-> n] IN
        /\ vals' = [vals EXCEPT ![i] = from(s)]
        /\ last' = Rec("from", i, "none", NoVal, TRUE, Take(ext[e], n), "Ok", e, {}, <<>>)
    /\ UNCHANGED <<ext, heap>>

\* an off-by-one length check, data.len() >= MAX
LengthOverflow_ge(len) == ULe(MAX, len)

\* data.len() > MAX
LengthOverflow(len) == ULt(MAX, len)

\* set_unchecked on the heap h that holds the box: the new value
set_unchecked_val(box) ==
    LET parts == boxed_slice_to_compact_parts(box)
    IN [tag |-> "Owned", ptr |-> parts.ptr, len |-> parts.len]

\* a set_unchecked that overwrites self.data without dropping the previous
\* BytesInner (as ptr::write would)
set_unchecked_heap_nodrop(h, old) == h

\* set_unchecked: the assignment to self.data drops the previous BytesInner
set_unchecked_heap(h, old) == drop(h, old)

\* self.set(data) for a boxed slice of content v, allocated by the caller at p
Set(i, v) ==
    /\ vals[i] # NoVal
    /\ \E p \in BoxAddrs(heap, v) :
        LET h1 == alloc(heap, p, v)
            box == [ptr |-> p, len |-> v.len]
        IN IF LengthOverflow(box.len)
           THEN /\ heap' = dealloc(h1, p, box.len)
                /\ vals' = vals
                /\ last' = Rec("set", i, "none", vals[i], PreOk(heap, vals[i]), v,
                               "LengthOverflow", p, {}, RelEvents(h1, p, box.len))
           ELSE /\ heap' = set_unchecked_heap(h1, vals[i])
                /\ vals' = [vals EXCEPT ![i] = set_unchecked_val(box)]
                /\ last' = Rec("set", i, "none", vals[i], PreOk(heap, vals[i]), v,
                               "Ok", p, {}, drop_rels(h1, vals[i]))
    /\ UNCHANGED ext

\* clone_compact_bytes_parts: the boxed slice rebuilt from (ptr, len) is
\* cloned into a new allocation at q with the bytes c read from it, and the
\* rebuilt box is dropped at the end of the expression
clone_compact_bytes_parts_heap(h, ptr, len, q, c) == dealloc(alloc(h, q, c), ptr, len)

clone_compact_bytes_parts_rels(h, ptr, len, q, c) == RelEvents(alloc(h, q, c), ptr, len)

\* a clone that takes the Owned arm for a Borrowed value: the copy of the
\* (ptr, len) pair tagged Owned
clone_borrowed_as_owned(data, len) == [tag |-> "Owned", ptr |-> data, len |-> len]

\* the Borrowed arm of clone: Bytes::from(compact_bytes_to_slice(*data, *len))
clone_borrowed(data, len) == from(compact_bytes_to_slice(data, len))

\* self.clone() into slot j
Clone(i, j) ==
    /\ vals[i] # NoVal
    /\ vals[j] = NoVal
    /\ i # j
    /\ \E c \in Deref(heap, as_bytes(vals[i])) :
        IF vals[i].tag = "Borrowed"
        THEN /\ vals' = [vals EXCEPT ![j] = clone_borrowed(vals[i].ptr, vals[i].len)]
             /\ heap' = heap
             /\ last' = Rec("clone", i, j, vals[i], PreOk(heap, vals[i]), c, "Ok", 0, {}, <<>>)
        ELSE \E q \in BoxAddrs(heap, c) :
             LET src == compact_bytes_to_boxed_slice(vals[i].ptr, vals[i].len)
                 parts == boxed_slice_to_compact_parts([ptr |-> q, len |-> src.len])
             IN /\ vals' = [vals EXCEPT ![j] = [tag |-> "Owned", ptr |-> parts.ptr, len |-> parts.len]]
                /\ heap' = clone_compact_bytes_parts_heap(heap, src.ptr, src.len, q, c)
                /\ last' = Rec("clone", i, j, vals[i], PreOk(heap, vals[i]), c, "Ok", 0,
                               IF c.len = USize(0) THEN {} ELSE {q},
                               clone_compact_bytes_parts_rels(heap, src.ptr, src.len, q, c))
    /\ UNCHANGED ext

\* the value in slot i goes out of scope
Drop(i) ==
    /\ vals[i] # NoVal
    /\ heap' = drop(heap, vals[i])
    /\ vals' = [vals EXCEPT ![i] = NoVal]
    /\ last' = Rec("drop", i, "none", vals[i], PreOk(heap, vals[i]), EmptyBuf, "Ok", 0, {},
                   drop_rels(heap, vals[i]))
    /\ UNCHANGED ext

\* vals[i] == vals[j]
Eq(i, j) ==
    /\ i # j
    /\ vals[i] # NoVal
    /\ vals[j] # NoVal
    /\ \E r \in eq(vals[i], vals[j]) :
        last' = Rec("eq", i, j, vals[i], PreOk(heap, vals[i]), EmptyBuf,
                    IF r THEN "true" ELSE "false", 0, {}, <<>>)
    /\ UNCHANGED <<ext, heap, vals>>

\* vals[i].cmp(&vals[j])
Cmp(i, j) ==
    /\ i # j
    /\ vals[i] # NoVal
    /\ vals[j] # NoVal
    /\ last' = Rec("cmp", i, j, vals[i], PreOk(heap, vals[i]), EmptyBuf,
                   cmp(vals[i], vals[j]), 0, {}, <<>>)
    /\ UNCHANGED <<ext, heap, vals>>

\* vals[i].as_bytes_borrowed()
AsBytesBorrowed(i) ==
    /\ vals[i] # NoVal
    /\ LET r == as_bytes_borrowed(vals[i]) IN
        \E c \in Deref(heap, r.view) :
            last' = Rec("as_bytes_borrowed", i, "none", vals[i], PreOk(heap, vals[i]), c,
                        IF r.some THEN "Some" ELSE "None", 0, {}, <<>>)
    /\ UNCHANGED <<ext, heap, vals>>

\* the hash codes of vals[i] and vals[j], under one hasher, compared
Hash(i, j) ==
    /\ i # j
    /\ vals[i] # NoVal
    /\ vals[j] # NoVal
    /\ \E x \in hash(vals[i]), y \in hash(vals[j]) :
        last' = Rec("hash", i, j, vals[i], PreOk(heap, vals[i]), EmptyBuf,
                    IF x = y THEN "same" ELSE "differ", 0, {}, <<>>)
    /\ UNCHANGED <<ext, heap, vals>>

Next ==
    \/ \E i \in Slots, e \in ExtAddr, n \in SliceLens : FromBorrowed(i, e, n)
    \/ \E i \in Slots, v \in BoxInputs : Set(i, v)
    \/ \E i \in Slots, j \in Slots : Clone(i, j)
    \/ \E i \in Slots : Drop(i)
    \/ \E i \in Slots, j \in Slots : Eq(i, j)
    \/ \E i \in Slots, j \in Slots : Cmp(i, j)
    \/ \E i \in Slots : AsBytesBorrowed(i)
    \/ \E i \in Slots, j \in Slots : Hash(i, j)

Spec == Init /\ [][Next]_vars

----
\* properties

\* lexicographic order of two byte sequences
LexCmp(x, y) ==
    LET D == {k \in 1..Min(Len(x.pre), Len(y.pre)) : x.pre[k] # y.pre[k]}
    IN IF D # {}
       THEN LET k == CHOOSE d \in D : \A l \in D : d <= l IN IntCmp(x.pre[k], y.pre[k])
       ELSE UCmp(x.len, y.len)

LiveAllocs == {p \in HeapAddr : heap[p].live}

\* the values that own an allocation: Owned and not empty
OwnedSlots == {i \in Slots : vals[i].tag = "Owned" /\ vals[i].len # USize(0)}

\* C1: clone independence (Owned). The clone of an Owned value of content C
\* has content C and the source still owns a live allocation of content C;
\* a set on one value leaves every other value's storage and content as they
\* were; and no clone, set or drop releases an allocation that is already
\* released.
C1_CloneIndependence ==
    [][
        /\ (last'.op = "clone" /\ last'.pre.tag = "Owned" /\ last'.preOk) =>
            /\ OwnsLive(heap', vals'[last'.other])
            /\ Content(heap', vals'[last'.other]) = last'.arg
            /\ OwnsLive(heap', vals'[last'.slot])
            /\ Content(heap', vals'[last'.slot]) = last'.arg
            /\ vals'[last'.slot] = vals[last'.slot]
        /\ (last'.op = "set") =>
            (\A k \in Slots \ {last'.slot} :
                OwnsLive(heap, vals[k]) =>
                    /\ vals'[k] = vals[k]
                    /\ OwnsLive(heap', vals'[k])
                    /\ Content(heap', vals'[k]) = Content(heap, vals[k]))
        /\ (last'.op \in {"clone", "set", "drop"}) =>
            (\A k \in 1..Len(last'.rels) : last'.rels[k].ok)
    ]_vars

\* C2: the storage recorded by a live Owned value is an allocation that has
\* not been released, so as_bytes never reads released memory.
C2_OwnedStorageLive ==
    \A i \in Slots : vals[i].tag = "Owned" => Valid(heap, vals[i])

\* C3: the ordering of two values is the lexicographic order of their
\* contents, whatever their variants and addresses.
C3_OrderIsLexicographic ==
    (/\ last.op = "cmp"
     /\ Valid(heap, vals[last.slot])
     /\ Valid(heap, vals[last.other])) =>
        last.res = LexCmp(Content(heap, vals[last.slot]), Content(heap, vals[last.other]))

\* C4: no two live values record the same Owned allocation, and the number of
\* live allocations equals the number of live Owned values that hold one.
C4_SingleOwner ==
    /\ \A i \in OwnedSlots, j \in OwnedSlots : i # j => vals[i].ptr # vals[j].ptr
    /\ Cardinality(LiveAllocs) = Cardinality(OwnedSlots)

\* C5: destroying an Owned value releases exactly the allocation it records,
\* which is live until then (an empty Owned value records none); destroying a
\* Borrowed value releases nothing; and no operation releases external memory.
C5_DropAccounting ==
    /\ (last.op = "drop" /\ last.pre.tag = "Owned") =>
            last.rels = IF last.pre.len = USize(0) THEN <<>>
                        ELSE <<[addr |-> last.pre.ptr, ok |-> TRUE]>>
    /\ (last.op = "drop" /\ last.pre.tag = "Borrowed") => last.rels = <<>>
    /\ \A k \in 1..Len(last.rels) : last.rels[k].addr \notin ExtAddr

C7_SetReleasesPrior ==
    (last.op = "set" /\ last.res = "Ok") =>
        /\ last.pre.tag = "Owned" =>
                last.rels = IF last.pre.len = USize(0) THEN <<>>
                            ELSE <<[addr |-> last.pre.ptr, ok |-> TRUE]>>
        /\ last.pre.tag = "Borrowed" => last.rels = <<>>
        /\ vals[last.slot] = [tag |-> "Owned", ptr |-> last.box, len |-> last.arg.len]
        /\ last.allocs = {}

\* C8: after set(v) succeeds, for v of at most 2^32 - 1 bytes and either
\* starting variant, as_bytes() is v.
C8_SetRoundTrip ==
    (last.op = "set" /\ ULe(last.arg.len, MAX)) =>
        /\ last.res = "Ok"
        /\ Valid(heap, vals[last.slot])
        /\ Content(heap, vals[last.slot]) = last.arg

\* C9: from_borrowed(s) records the address of s and the full length of s,
\* and its as_bytes() is s, for s of any length.
C9_FromBorrowedView ==
    (last.op = "from") =>
        /\ vals[last.slot] = [tag |-> "Borrowed", ptr |-> last.box, len |-> last.arg.len]
        /\ Content(heap, vals[last.slot]) = last.arg

\* C10: a == b iff the contents of a and b are the same byte sequence,
\* whatever their variants and addresses.
C10_EqByContent ==
    (/\ last.op = "eq"
     /\ Valid(heap, vals[last.slot])
     /\ Valid(heap, vals[last.other])) =>
        (last.res = "true" <=>
            Content(heap, vals[last.slot]) = Content(heap, vals[last.other]))

\* a Borrowed and an Owned value of the same non-empty content compared equal
C10_Witness ==
    /\ last.op = "eq"
    /\ vals[last.slot].tag = "Borrowed"
    /\ vals[last.other].tag = "Owned"
    /\ OwnsLive(heap, vals[last.other])
    /\ vals[last.slot].len # USize(0)
    /\ Content(heap, vals[last.slot]) = Content(heap, vals[last.other])
    /\ last.res = "true"

\* C11: cloning an Owned value makes exactly one new allocation (none for an
\* empty value), holding a copy of the bytes, and the new Owned value records
\* that allocation, which is not the one the source records.
C11_CloneOwnedFresh ==
    (last.op = "clone" /\ last.pre.tag = "Owned") =>
        /\ vals[last.other].tag = "Owned"
        /\ vals[last.other].len = last.pre.len
        /\ OwnsLive(heap, vals[last.other])
        /\ Content(heap, vals[last.other]) = last.arg
        /\ last.pre.len # USize(0) =>
            /\ last.allocs = {vals[last.other].ptr}
            /\ vals[last.other].ptr # last.pre.ptr
        /\ last.pre.len = USize(0) => last.allocs = {}

\* C12: the clone of a Borrowed value is Borrowed with the same address and
\* the same length, and the clone allocates nothing, releases nothing and
\* leaves the heap and the source as they were.
C12_CloneBorrowedIdentity ==
    [][
        (last'.op = "clone" /\ last'.pre.tag = "Borrowed") =>
            /\ vals'[last'.other].tag = "Borrowed"
            /\ as_ptr(vals'[last'.other]) = as_ptr(vals[last'.slot])
            /\ vals'[last'.other].len = vals[last'.slot].len
            /\ vals'[last'.slot] = vals[last'.slot]
            /\ last'.allocs = {}
            /\ last'.rels = <<>>
            /\ heap' = heap
    ]_vars

\* a Borrowed value of one byte or more has been cloned
C12_Witness ==
    /\ last.op = "clone"
    /\ last.pre.tag = "Borrowed"
    /\ last.pre.len # USize(0)
    /\ vals[last.other] = vals[last.slot]
    /\ vals[last.other].ptr \in ExtAddr

\* C13: as_bytes_borrowed returns a view exactly when the value is Borrowed,
\* and the view is the one as_bytes returns; so it returns nothing after a
\* successful set and still returns the view after a failed set on a
\* Borrowed value.
C13_AsBytesBorrowed ==
    /\ (last.op = "as_bytes_borrowed") =>
        /\ last.res = "Some" <=> vals[last.slot].tag = "Borrowed"
        /\ last.res = "None" <=> vals[last.slot].tag = "Owned"
        /\ last.res = "Some" =>
            /\ as_bytes_borrowed(vals[last.slot]).view = as_bytes(vals[last.slot])
            /\ last.arg = Content(heap, vals[last.slot])
    /\ (last.op = "set" /\ last.res = "Ok") => ~as_bytes_borrowed(vals[last.slot]).some
    /\ (last.op = "set" /\ last.res = "LengthOverflow" /\ last.pre.tag = "Borrowed") =>
        /\ as_bytes_borrowed(vals[last.slot]).some
        /\ as_bytes_borrowed(vals[last.slot]).view = as_bytes(last.pre)

\* as_bytes_borrowed has returned nothing for an Owned value that owns a
\* live allocation
C13_Witness ==
    /\ last.op = "as_bytes_borrowed"
    /\ last.res = "None"
    /\ vals[last.slot].tag = "Owned"
    /\ vals[last.slot].len # USize(0)
    /\ OwnsLive(heap, vals[last.slot])

\* C14: every Owned value records a length equal to the true length of the
\* allocation at the address it records, so that the release on drop or on
\* set is made with the true length.
C14_OwnedLengthExact ==
    \A i \in Slots :
        (vals[i].tag = "Owned" /\ vals[i].len # USize(0) /\ vals[i].ptr \in LiveAllocs) =>
            heap[vals[i].ptr].buf.len = vals[i].len

\* C15: two values of equal content produce equal hash codes, whatever their
\* variants and addresses.
C15_HashByContent ==
    (/\ last.op = "hash"
     /\ Valid(heap, vals[last.slot])
     /\ Valid(heap, vals[last.other])
     /\ Content(heap, vals[last.slot]) = Content(heap, vals[last.other])) =>
        last.res = "same"

\* a Borrowed and an Owned value of the same non-empty content at different
\* addresses hashed to the same code
C15_Witness ==
    /\ last.op = "hash"
    /\ vals[last.slot].tag = "Borrowed"
    /\ vals[last.other].tag = "Owned"
    /\ OwnsLive(heap, vals[last.other])
    /\ vals[last.slot].len # USize(0)
    /\ Content(heap, vals[last.slot]) = Content(heap, vals[last.other])
    /\ last.res = "same"

\* C16: equality and ordering agree: a == b holds iff a.cmp(&b) is Equal, so
\* that a < b, a == b and a > b exclude one another.
C16_EqAgreesWithOrd ==
    (/\ last.op = "cmp"
     /\ Valid(heap, vals[last.slot])
     /\ Valid(heap, vals[last.other])) =>
        (last.res = "Equal" <=> eq(vals[last.slot], vals[last.other]) = {TRUE})

\* C17: once every value has been destroyed, every buffer allocated by clone
\* or handed to set has been released, the box rejected by a failed set and
\* the storage replaced by a successful set included: every live allocation
\* is recorded by a live Owned value.
C17_NoLeak ==
    /\ (\A i \in Slots : vals[i] = NoVal) => LiveAllocs = {}
    /\ (last.op = "set" /\ last.res = "LengthOverflow") => last.box \notin LiveAllocs
    /\ \A p \in LiveAllocs : \E i \in OwnedSlots : vals[i].ptr = p

\* both values are destroyed and nothing is live, the last one dropped being
\* an Owned value that released its allocation
C17_Witness ==
    /\ \A i \in Slots : vals[i] = NoVal
    /\ LiveAllocs = {}
    /\ last.op = "drop"
    /\ last.pre.tag = "Owned"
    /\ last.rels = <<[addr |-> last.pre.ptr, ok |-> TRUE]>>

TypeOK ==
    /\ \A p \in HeapAddr : heap[p].live \in BOOLEAN
    /\ \A i \in Slots : vals[i].tag \in {"None", "Borrowed", "Owned"}

====
